---- MODULE Spec2Model ----
(***************************************************************************)
(* Model of the nvscreencopy capture / copy / present loop.                *)
(*                                                                         *)
(* The program is single threaded: one calloop event loop dispatches       *)
(*   - DrmEvent::VBlank from the target GPU          (main.rs 346-359),    *)
(*   - the one second timer tick                     (main.rs 372-394),    *)
(*   - export-dmabuf events of the capture protocol  (main.rs 84-145).     *)
(* Every handler runs to completion, so each handler is one action.        *)
(* The compositor, the DRM device and the GPU drivers are the environment: *)
(* their events and call results are chosen nondeterministically.          *)
(***************************************************************************)
EXTENDS Integers, Sequences, FiniteSets, TLC

(***************************************************************************)
(* Bounds of the model.                                                    *)
(***************************************************************************)
\* capture requests issued in one run
MaxRequests == 2
\* Object events accepted into one descriptor
MaxPlanes == 2

(***************************************************************************)
(* Fixed width integers.  An unsigned integer is the set of the positions  *)
(* of its one bits: a u32 is a subset of 0..31, a u64 a subset of 0..63    *)
(* (bit 0 is the least significant bit).                                   *)
(***************************************************************************)
U32(S) == S \cap (0..31)

\* `x as u64` for x : u32 (zero extension: bits 32..63 are clear)
AsU64(x) == {b \in 0..63 : b < 32 /\ b \in x}

\* `x as i32 as u64` for x : u32 (sign extension: bits 32..63 copy bit 31)
AsI64(x) == {b \in 0..63 : IF b < 32 THEN b \in x ELSE 31 \in x}

\* `x << n` for x : u64, 0 <= n < 64 (bits shifted past bit 63 are lost)
Shl64(x, n) == {b \in 0..63 : b >= n /\ (b - n) \in x}

\* `x | y` for x, y : u64
Or64(x, y) == x \cup y

\* the modifier computed with the low half sign extended
ModifierSignExtended(mod_high, mod_low) ==
    Or64(Shl64(AsU64(mod_high), 32), AsI64(mod_low))

\* (((mod_high as u64) << 32) | mod_low as u64)
CombineModifier(mod_high, mod_low) ==
    Or64(Shl64(AsU64(mod_high), 32), AsU64(mod_low))

\* Modifier::from(u64): the linear layout has its own variant, any other
\* value is carried in a variant holding the raw 64 bit code
ModifierFrom(m) ==
    IF m = AsU64(U32({})) THEN [variant |-> "Linear"]
    ELSE [variant |-> "Unrecognized", raw |-> m]

\* u64::from(Modifier)
ModifierCode(m) ==
    IF m.variant = "Linear" THEN AsU64(U32({})) ELSE m.raw

(***************************************************************************)
(* Inputs of the environment.                                              *)
(***************************************************************************)
\* (width, height), buffer_flags, mod_high and mod_low of a Frame event.
\* Sizes 2x2 and 4x2; flags 0 and 9 (bits 0..2 are the flags DmabufFlags
\* defines, bit 3 is not defined); modifier halves 0 and 0x80000001.
FrameHeaders ==
    { [size |-> <<2, 2>>, flags |-> 0, mod_high |-> U32({}), mod_low |-> U32({})],
      [size |-> <<2, 2>>, flags |-> 9, mod_high |-> U32({}), mod_low |-> U32({0, 31})],
      [size |-> <<4, 2>>, flags |-> 0, mod_high |-> U32({0, 31}), mod_low |-> U32({})],
      [size |-> <<4, 2>>, flags |-> 9, mod_high |-> U32({0, 31}),
       mod_low |-> U32({0, 31})] }

\* format codes of a Frame event: one that Fourcc knows, one it does not
FormatCodes == {"XR24", "unknown"}

\* (fd, plane_index, offset, stride) of an Object event
PlaneInputs ==
    { [fd |-> 3, plane_index |-> 0, offset |-> 0, stride |-> 8],
      [fd |-> 4, plane_index |-> 1, offset |-> 16, stride |-> 8] }

\* reasons of a Cancel event
CancelReasons == {"Temporary", "Permanent", "Resizing"}

\* results of EGLSurface::swap_buffers: Ok, or EGLSwapBuffers(code)
SwapResults == {"Ok", "0x3353", "0x321c", "BadSurface", "BadAlloc"}

(***************************************************************************)
(* Option values: None is the empty sequence, Some(x) is <<x>>.            *)
(***************************************************************************)
None == <<>>
Some(x) == <<x>>
IsSome(o) == o # <<>>
Unwrap(o) == o[1]

(***************************************************************************)
(* State.                                                                  *)
(***************************************************************************)
VARIABLES
    dmabuf,      \* WaylandState.dmabuf : Option<(DmabufBuilder, u64)>
    try_again,   \* WaylandState.try_again
    copy,        \* WaylandState.copy : Option<CopyState>
    frames,      \* export-dmabuf frame objects that are alive
    next_frame,  \* id of the next frame object capture_output creates
    panic,       \* None while the process runs, Some(message) once it panicked
    \* history of the latest handler, for stating properties
    event,       \* the event the latest handler was run for
    steps,       \* GPU calls of the latest render_dmabuf, with their results
    built,       \* the Dmabuf the latest Ready handed to render_dmabuf
    begun,       \* arguments of the latest Frame event that started a descriptor,
                 \* and the frame objects whose events wrote into it (writers)
    objs,        \* Object events accepted since that Frame event
    valid,       \* no Ready / Cancel was received since that Frame event
    \* (a Ready moves begun, objs and valid into its event record)
    tracking     \* history switch, constant in a run: whether the writers
                 \* of a descriptor are recorded (SessionSpec records them)

vars == <<dmabuf, try_again, copy, frames, next_frame, panic,
          event, steps, built, begun, objs, valid, tracking>>

\* EglStreamSurface (egl.rs 273-280) and the native streams of the driver
VARIABLES
    stream,      \* EglStreamSurface.stream : Cell<Option<EGLStreamKHR>>
    mode,        \* EglStreamSurface.mode : Cell<(i32, i32)>
    surface,     \* EglStreamSurface.surface : AtomicPtr, "null" or a surface
    streams,     \* native streams CreateStreamKHR returned (none is destroyed)
    next_stream, \* handle the next CreateStreamKHR returns
    scall        \* history: the latest call on the surface, with the native
                 \* calls it made and its result

svars == <<stream, mode, surface, streams, next_stream, scall>>

CopyStates == {"DirectImport", "CPUCopy"}

running == panic = None

\* EglStreamSurface::new
SurfaceNew(m) ==
    /\ stream = None
    /\ mode = m
    /\ surface = None
    /\ streams = {}
    /\ next_stream = 1
    /\ scall = [op |-> "new"]

\* the state when event_loop.run is entered; t is the history switch
Start(t) ==
    /\ tracking = t
    /\ dmabuf = None
    /\ try_again = FALSE
    /\ copy = None
    /\ frames = {}
    /\ next_frame = 1
    /\ panic = None
    /\ event = [kind |-> "Init"]
    /\ steps = <<>>
    /\ built = None
    /\ begun = None
    /\ objs = <<>>
    /\ valid = FALSE
    /\ SurfaceNew(<<2, 2>>)

Init == Start(FALSE)

\* the same state, with the writers of descriptors recorded
SessionInit == Start(TRUE)

(***************************************************************************)
(* Triggers.                                                               *)
(***************************************************************************)
\* manager.capture_output(1, &state.output); frame.quick_assign(handle_frame)
capture_output ==
    /\ frames' = frames \cup {next_frame}
    /\ next_frame' = next_frame + 1

\* a VBlank arm that also asks the tick for a retry
VBlankRetries ==
    /\ running
    /\ next_frame <= MaxRequests
    /\ capture_output
    /\ event' = [kind |-> "VBlank"]
    /\ steps' = <<>>
    /\ built' = None
    /\ try_again' = TRUE
    /\ UNCHANGED <<dmabuf, copy, panic, begun, objs, valid>>
    /\ UNCHANGED <<svars, tracking>>

\* DrmEvent::VBlank arm of the DRM event dispatcher
VBlank ==
    /\ running
    /\ next_frame <= MaxRequests
    /\ capture_output
    /\ event' = [kind |-> "VBlank"]
    /\ steps' = <<>>
    /\ built' = None
    /\ UNCHANGED <<dmabuf, try_again, copy, panic, begun, objs, valid>>
    /\ UNCHANGED <<svars, tracking>>

\* a tick that reads the flag without clearing it (`load` in place of `swap`)
TickKeepsFlag ==
    /\ running
    /\ try_again => next_frame <= MaxRequests
    /\ IF try_again THEN capture_output ELSE UNCHANGED <<frames, next_frame>>
    /\ event' = [kind |-> "Tick", retry |-> try_again]
    /\ steps' = <<>>
    /\ built' = None
    /\ UNCHANGED <<try_again, dmabuf, copy, panic, begun, objs, valid>>
    /\ UNCHANGED <<svars, tracking>>

\* a tick that also issues a capture request when a request is outstanding
\* and the flag is clear (a watchdog)
TickWatchdog ==
    /\ running
    /\ (try_again \/ frames # {}) => next_frame <= MaxRequests
    /\ try_again' = FALSE
    /\ IF try_again \/ frames # {} THEN capture_output
       ELSE UNCHANGED <<frames, next_frame>>
    /\ event' = [kind |-> "Tick", retry |-> try_again]
    /\ steps' = <<>>
    /\ built' = None
    /\ UNCHANGED <<dmabuf, copy, panic, begun, objs, valid>>
    /\ UNCHANGED <<svars, tracking>>

\* the callback event_loop.run calls once per iteration
Tick ==
    /\ running
    /\ try_again => next_frame <= MaxRequests
    /\ try_again' = FALSE
    /\ IF try_again THEN capture_output ELSE UNCHANGED <<frames, next_frame>>
    /\ event' = [kind |-> "Tick", retry |-> try_again]
    /\ steps' = <<>>
    /\ built' = None
    /\ UNCHANGED <<dmabuf, copy, panic, begun, objs, valid>>
    /\ UNCHANGED <<svars, tracking>>

(***************************************************************************)
(* The dmabuf builder of the allocator library, as handle_frame uses it.   *)
(***************************************************************************)
\* DmabufFlags::from_bits_truncate(buffer_flags): keeps the defined bits 0..2
from_bits_truncate(buffer_flags) == buffer_flags % 8

\* Dmabuf::builder(size, format, flags)
builder(size, format, flags) ==
    [size |-> size, format |-> format, flags |-> flags, planes |-> <<>>]

\* add_plane that puts the new plane in front of the list
add_plane_front(b, fd, plane_index, offset, stride, modifier) ==
    [b EXCEPT !.planes =
        <<[fd |-> fd, plane_idx |-> plane_index, offset |-> offset,
           stride |-> stride, modifier |-> modifier]>> \o @]

\* DmabufBuilder::add_plane(fd, plane_index, offset, stride, modifier)
add_plane(b, fd, plane_index, offset, stride, modifier) ==
    [b EXCEPT !.planes =
        Append(@, [fd |-> fd, plane_idx |-> plane_index, offset |-> offset,
                   stride |-> stride, modifier |-> modifier])]

\* DmabufBuilder::build(): None for a builder without planes
build(b) == IF b.planes = <<>> THEN None ELSE Some(b)

(***************************************************************************)
(* render_dmabuf.  The results of the GPU calls are inputs:                *)
(*   importOk  copy_by_import(state, &buf).is_ok()                         *)
(*   cpuOk     copy_by_cpu(state, &buf).is_ok()                            *)
(*   bindOk    renderer.bind(surface) is Ok                                *)
(*   renderOk  renderer.render(..) is Ok(Ok(()))                           *)
(*   swapRes   the result of surface.swap_buffers()                        *)
(* The value is the new copy and try_again, the calls that were made and   *)
(* how the function ended: "Ok", "Err" (an error returned with `?`) or     *)
(* "Panic" with the message.                                               *)
(***************************************************************************)
Call(name, ok) == [call |-> name, ok |-> ok]

\* the call of surface.swap_buffers() with the result it gave
SwapCall(swapRes) == [call |-> "swap_buffers", ok |-> swapRes = "Ok", code |-> swapRes]

\* a copy stage that tries the CPU copy although the strategy is fixed to
\* DirectImport and the import failed
copy_stage_retrying(c, importOk, cpuOk) ==
    IF c = None \/ c = Some("DirectImport") THEN
        IF importOk THEN
            [copy |-> Some("DirectImport"), end |-> "Ok", msg |-> "",
             steps |-> <<Call("copy_by_import", TRUE)>>]
        ELSE IF cpuOk THEN
            [copy |-> Some("CPUCopy"), end |-> "Ok", msg |-> "",
             steps |-> <<Call("copy_by_import", FALSE), Call("copy_by_cpu", TRUE)>>]
        ELSE
            [copy |-> c, end |-> "Panic",
             msg |-> "Could not determine working copy path",
             steps |-> <<Call("copy_by_import", FALSE), Call("copy_by_cpu", FALSE)>>]
    ELSE
        [copy |-> c, end |-> IF cpuOk THEN "Ok" ELSE "Err", msg |-> "",
         steps |-> <<Call("copy_by_cpu", cpuOk)>>]

\* a copy stage that tries the CPU copy first while undecided
copy_stage_cpu_first(c, importOk, cpuOk) ==
    IF c = None THEN
        IF cpuOk THEN
            [copy |-> Some("CPUCopy"), end |-> "Ok", msg |-> "",
             steps |-> <<Call("copy_by_cpu", TRUE)>>]
        ELSE IF importOk THEN
            [copy |-> Some("DirectImport"), end |-> "Ok", msg |-> "",
             steps |-> <<Call("copy_by_cpu", FALSE), Call("copy_by_import", TRUE)>>]
        ELSE
            [copy |-> c, end |-> "Panic",
             msg |-> "Could not determine working copy path",
             steps |-> <<Call("copy_by_cpu", FALSE), Call("copy_by_import", FALSE)>>]
    ELSE IF c = Some("DirectImport") THEN
        [copy |-> c, end |-> IF importOk THEN "Ok" ELSE "Err", msg |-> "",
         steps |-> <<Call("copy_by_import", importOk)>>]
    ELSE
        [copy |-> c, end |-> IF cpuOk THEN "Ok" ELSE "Err", msg |-> "",
         steps |-> <<Call("copy_by_cpu", cpuOk)>>]

\* a copy stage that goes on to render when both copies failed
copy_stage_no_panic(c, importOk, cpuOk) ==
    IF c = None THEN
        IF importOk THEN
            [copy |-> Some("DirectImport"), end |-> "Ok", msg |-> "",
             steps |-> <<Call("copy_by_import", TRUE)>>]
        ELSE IF cpuOk THEN
            [copy |-> Some("CPUCopy"), end |-> "Ok", msg |-> "",
             steps |-> <<Call("copy_by_import", FALSE), Call("copy_by_cpu", TRUE)>>]
        ELSE
            [copy |-> c, end |-> "Ok", msg |-> "",
             steps |-> <<Call("copy_by_import", FALSE), Call("copy_by_cpu", FALSE)>>]
    ELSE IF c = Some("DirectImport") THEN
        [copy |-> c, end |-> IF importOk THEN "Ok" ELSE "Err", msg |-> "",
         steps |-> <<Call("copy_by_import", importOk)>>]
    ELSE
        [copy |-> c, end |-> IF cpuOk THEN "Ok" ELSE "Err", msg |-> "",
         steps |-> <<Call("copy_by_cpu", cpuOk)>>]

\* the `match state.copy` of render_dmabuf
copy_stage(c, importOk, cpuOk) ==
    IF c = None THEN
        IF importOk THEN
            [copy |-> Some("DirectImport"), end |-> "Ok", msg |-> "",
             steps |-> <<Call("copy_by_import", TRUE)>>]
        ELSE IF cpuOk THEN
            [copy |-> Some("CPUCopy"), end |-> "Ok", msg |-> "",
             steps |-> <<Call("copy_by_import", FALSE), Call("copy_by_cpu", TRUE)>>]
        ELSE
            [copy |-> c, end |-> "Panic",
             msg |-> "Could not determine working copy path",
             steps |-> <<Call("copy_by_import", FALSE), Call("copy_by_cpu", FALSE)>>]
    ELSE IF c = Some("DirectImport") THEN
        [copy |-> c, end |-> IF importOk THEN "Ok" ELSE "Err", msg |-> "",
         steps |-> <<Call("copy_by_import", importOk)>>]
    ELSE
        [copy |-> c, end |-> IF cpuOk THEN "Ok" ELSE "Err", msg |-> "",
         steps |-> <<Call("copy_by_cpu", cpuOk)>>]

\* a list of temporary codes without 0x321c
TransientSwapErrorsShort == {"0x3353", "BadSurface"}

\* the native codes render_dmabuf treats as temporary
TransientSwapErrors == {"0x3353", "0x321c", "BadSurface"}

\* a render_dmabuf that presents although the render failed
render_dmabuf_presents_anyway(c, ta, importOk, cpuOk, bindOk, renderOk, swapRes) ==
    LET cs == copy_stage(c, importOk, cpuOk)
        out(end, msg, t, more) ==
            [copy |-> cs.copy, try_again |-> t, end |-> end, msg |-> msg,
             steps |-> cs.steps \o more]
    IN  IF cs.end # "Ok" THEN out(cs.end, cs.msg, ta, <<>>)
        ELSE IF ~bindOk THEN
            out("Panic", "Failed to bind surface", ta, <<Call("bind", FALSE)>>)
        ELSE IF swapRes = "Ok" THEN
            out("Ok", "", ta,
                <<Call("bind", TRUE), Call("render", renderOk), SwapCall(swapRes)>>)
        ELSE IF swapRes \in TransientSwapErrors THEN
            out("Ok", "", TRUE,
                <<Call("bind", TRUE), Call("render", renderOk), SwapCall(swapRes)>>)
        ELSE
            out("Panic", "Swapping buffers failed", ta,
                <<Call("bind", TRUE), Call("render", renderOk), SwapCall(swapRes)>>)

\* a render_dmabuf that asks for a retry after every present
render_dmabuf_always_retry(c, ta, importOk, cpuOk, bindOk, renderOk, swapRes) ==
    LET cs == copy_stage(c, importOk, cpuOk)
        out(end, msg, t, more) ==
            [copy |-> cs.copy, try_again |-> t, end |-> end, msg |-> msg,
             steps |-> cs.steps \o more]
    IN  IF cs.end # "Ok" THEN out(cs.end, cs.msg, ta, <<>>)
        ELSE IF ~bindOk THEN
            out("Panic", "Failed to bind surface", ta, <<Call("bind", FALSE)>>)
        ELSE IF ~renderOk THEN
            out("Err", "", ta, <<Call("bind", TRUE), Call("render", FALSE)>>)
        ELSE IF swapRes = "Ok" \/ swapRes \in TransientSwapErrors THEN
            out("Ok", "", TRUE,
                <<Call("bind", TRUE), Call("render", TRUE), SwapCall(swapRes)>>)
        ELSE
            out("Panic", "Swapping buffers failed", ta,
                <<Call("bind", TRUE), Call("render", TRUE), SwapCall(swapRes)>>)

\* render_dmabuf
render_dmabuf(c, ta, importOk, cpuOk, bindOk, renderOk, swapRes) ==
    LET cs == copy_stage(c, importOk, cpuOk)
        out(end, msg, t, more) ==
            [copy |-> cs.copy, try_again |-> t, end |-> end, msg |-> msg,
             steps |-> cs.steps \o more]
    IN  IF cs.end # "Ok" THEN out(cs.end, cs.msg, ta, <<>>)
        ELSE IF ~bindOk THEN
            out("Panic", "Failed to bind surface", ta, <<Call("bind", FALSE)>>)
        ELSE IF ~renderOk THEN
            out("Err", "", ta, <<Call("bind", TRUE), Call("render", FALSE)>>)
        ELSE IF swapRes = "Ok" THEN
            out("Ok", "", ta,
                <<Call("bind", TRUE), Call("render", TRUE), SwapCall(swapRes)>>)
        ELSE IF swapRes \in TransientSwapErrors THEN
            out("Ok", "", TRUE,
                <<Call("bind", TRUE), Call("render", TRUE), SwapCall(swapRes)>>)
        ELSE
            out("Panic", "Swapping buffers failed", ta,
                <<Call("bind", TRUE), Call("render", TRUE), SwapCall(swapRes)>>)

(***************************************************************************)
(* handle_frame: one action per arm of `match event`.                      *)
(***************************************************************************)
\* ExportDmabufEvent::Frame
OnFrame(f, size, buffer_flags, format, mod_high, mod_low) ==
    /\ running
    /\ f \in frames
    /\ event' = [kind |-> "Frame"]
    /\ steps' = <<>>
    /\ built' = None
    /\ IF format = "unknown" THEN
            \* Fourcc::try_from(format).unwrap()
            /\ panic' = Some("called Result::unwrap() on an Err value")
            /\ UNCHANGED <<dmabuf, begun, objs, valid>>
       ELSE
            /\ dmabuf' = Some([builder |-> builder(size, format,
                                            from_bits_truncate(buffer_flags)),
                               modifier |-> CombineModifier(mod_high, mod_low)])
            /\ begun' = Some([size |-> size, flags |-> buffer_flags,
                              format |-> format,
                              mod_high |-> mod_high, mod_low |-> mod_low,
                              writers |-> IF tracking THEN {f} ELSE {}])
            /\ objs' = <<>>
            /\ valid' = TRUE
            /\ UNCHANGED panic
    /\ UNCHANGED <<try_again, copy, frames, next_frame>>
    /\ UNCHANGED <<svars, tracking>>

\* an Object arm that starts an empty descriptor when there is none
OnObjectLenient(f, p) ==
    /\ running
    /\ f \in frames
    /\ Len(objs) < MaxPlanes
    /\ event' = [kind |-> "Object"]
    /\ steps' = <<>>
    /\ built' = None
    /\ LET cur == IF dmabuf = None
                  THEN [builder |-> builder(<<0, 0>>, "XR24", 0),
                        modifier |-> AsU64(U32({}))]
                  ELSE Unwrap(dmabuf)
       IN  dmabuf' = Some([cur EXCEPT !.builder =
                add_plane(@, p.fd, p.plane_index, p.offset, p.stride,
                          ModifierFrom(cur.modifier))])
    /\ objs' = Append(objs, p)
    /\ begun' = IF begun = None THEN begun
                ELSE Some([Unwrap(begun) EXCEPT
                        !.writers = IF tracking THEN @ \cup {f} ELSE @])
    /\ UNCHANGED <<panic, valid, try_again, copy, frames, next_frame>>
    /\ UNCHANGED <<svars, tracking>>

\* ExportDmabufEvent::Object
OnObject(f, p) ==
    /\ running
    /\ f \in frames
    /\ Len(objs) < MaxPlanes
    /\ event' = [kind |-> "Object"]
    /\ steps' = <<>>
    /\ built' = None
    /\ IF dmabuf = None THEN
            /\ panic' = Some("Object event before Frame event")
            /\ UNCHANGED <<dmabuf, objs, begun>>
       ELSE
            /\ dmabuf' = Some([Unwrap(dmabuf) EXCEPT !.builder =
                    add_plane(@, p.fd, p.plane_index, p.offset, p.stride,
                              ModifierFrom(Unwrap(dmabuf).modifier))])
            /\ objs' = Append(objs, p)
            /\ begun' = Some([Unwrap(begun) EXCEPT
                            !.writers = IF tracking THEN @ \cup {f} ELSE @])
            /\ UNCHANGED panic
    /\ UNCHANGED <<valid, try_again, copy, frames, next_frame>>
    /\ UNCHANGED <<svars, tracking>>

\* reading the option without emptying it (`as_ref` in place of `take`)
peek(o) == [value |-> o, left |-> o]

\* Option::take(): the value that was there, and None left behind
take(o) == [value |-> o, left |-> None]

\* ExportDmabufEvent::Ready
OnReady(f, importOk, cpuOk, bindOk, renderOk, swapRes) ==
    /\ running
    /\ f \in frames
    /\ event' = [kind |-> "Ready", had |-> dmabuf # None,
                  \* the descriptor was written by this frame object only
                  own |-> tracking /\ begun # None /\ Unwrap(begun).writers = {f},
                  \* the slot is empty because the Ready handled just before
                  \* took a descriptor this frame object had written into
                  robbed |-> /\ tracking
                             /\ dmabuf = None
                             /\ event.kind = "Ready" /\ event.had
                             /\ f \in Unwrap(event.begun).writers,
                  begun |-> begun, objs |-> objs, valid |-> valid]
    /\ begun' = None
    /\ objs' = <<>>
    /\ valid' = FALSE
    /\ LET t == take(dmabuf) IN
        /\ dmabuf' = t.left
        /\ IF t.value = None THEN
                /\ panic' = Some("Object event before Frame event")
                /\ steps' = <<>>
                /\ built' = None
                /\ UNCHANGED <<try_again, copy, frames>>
           ELSE LET buf == build(Unwrap(t.value).builder) IN
                IF buf = None THEN
                    /\ panic' = Some("Failed to build dmabuf")
                    /\ steps' = <<>>
                    /\ built' = None
                    /\ UNCHANGED <<try_again, copy, frames>>
                ELSE LET r == render_dmabuf(copy, try_again, importOk, cpuOk,
                                            bindOk, renderOk, swapRes) IN
                    /\ built' = buf
                    /\ steps' = r.steps
                    /\ copy' = r.copy
                    /\ try_again' = r.try_again
                    /\ IF r.end = "Ok" THEN
                            \* frame.destroy()
                            /\ frames' = frames \ {f}
                            /\ UNCHANGED panic
                       ELSE
                            /\ panic' = Some(IF r.end = "Err"
                                             THEN "Failed to render" ELSE r.msg)
                            /\ UNCHANGED frames
    /\ UNCHANGED next_frame
    /\ UNCHANGED <<svars, tracking>>

\* a Cancel arm that treats every reason as temporary
OnCancelNeverFatal(f, reason) ==
    /\ running
    /\ f \in frames
    /\ event' = [kind |-> "Cancel", reason |-> reason]
    /\ valid' = FALSE
    /\ steps' = <<>>
    /\ built' = None
    /\ frames' = frames \ {f}
    /\ try_again' = TRUE
    /\ UNCHANGED <<panic, dmabuf, copy, next_frame, begun, objs>>
    /\ UNCHANGED <<svars, tracking>>

\* a Cancel arm that presents the descriptor received so far
OnCancelPresenting(f, reason) ==
    /\ running
    /\ f \in frames
    /\ event' = [kind |-> "Cancel", reason |-> reason]
    /\ valid' = FALSE
    /\ steps' = IF dmabuf = None THEN <<>>
                ELSE <<Call("bind", TRUE), Call("render", TRUE), SwapCall("Ok")>>
    /\ built' = None
    /\ IF reason = "Permanent" THEN
            /\ panic' = Some("Output died")
            /\ UNCHANGED <<frames, try_again>>
       ELSE
            /\ frames' = frames \ {f}
            /\ try_again' = TRUE
            /\ UNCHANGED panic
    /\ UNCHANGED <<dmabuf, copy, next_frame, begun, objs>>
    /\ UNCHANGED <<svars, tracking>>

\* ExportDmabufEvent::Cancel, both arms
OnCancel(f, reason) ==
    /\ running
    /\ f \in frames
    /\ event' = [kind |-> "Cancel", reason |-> reason]
    /\ valid' = FALSE
    /\ steps' = <<>>
    /\ built' = None
    /\ IF reason = "Permanent" THEN
            /\ panic' = Some("Output died")
            /\ UNCHANGED <<frames, try_again>>
       ELSE
            \* frame.destroy(); state.try_again.store(true)
            /\ frames' = frames \ {f}
            /\ try_again' = TRUE
            /\ UNCHANGED panic
    /\ UNCHANGED <<dmabuf, copy, next_frame, begun, objs>>
    /\ UNCHANGED <<svars, tracking>>

(***************************************************************************)
(* EglStreamSurface.  Its methods are called through the EGLNativeSurface  *)
(* trait; the results of the native EGL calls are inputs.                  *)
(***************************************************************************)
\* native streams created in one run
MaxStreams == 2

\* modes a surface is created with or resized to
Modes == {<<2, 2>>, <<4, 2>>}

\* the extensions create_stream looks for
RequiredExtensions ==
    { "EGL_EXT_output_base", "EGL_EXT_output_drm", "EGL_KHR_stream",
      "EGL_NV_output_drm_flip_event", "EGL_EXT_stream_consumer_egloutput",
      "EGL_KHR_stream_producer_eglsurface" }

\* extension lists of a display: all six, or all but one
ExtensionLists ==
    {RequiredExtensions} \cup {RequiredExtensions \ {e} : e \in RequiredExtensions}

\* outcomes of the two GetOutputLayersEXT calls: the first returns 0, it
\* reports no layer, the second returns 0, or a layer is found
LayerResults == {"QueryFailed", "NoLayer", "GetFailed", "Ok"}

\* values QueryOutputLayerAttribEXT reports for MIN_SWAP_INTERVAL (the variable
\* it writes to starts at 1 and the result of the query is not tested)
MinIntervals == {0, 1, 2}

\* values of eglGetError after a native call
EglErrors == {"SUCCESS", "BadSurface", "0x3353", "0x321c", "BadAlloc"}

NativeCall(name) == [call |-> name]

\* an extension test that forgets the producer surface extension
has_extensions_five(exts) ==
    (RequiredExtensions \ {"EGL_KHR_stream_producer_eglsurface"}) \subseteq exts

\* the six `extensions.iter().any(..)` tests of create_stream
has_extensions(exts) == RequiredExtensions \subseteq exts

\* a create_stream that stores the stream before linking the consumer
create_stream_stores_early(exts, layers, interval, streamOk, linkOk, h) ==
    LET out(res, stored, created, calls) ==
            [result |-> res, stored |-> stored, created |-> created, calls |-> calls]
        q == <<NativeCall("QueryString")>>
        get == NativeCall("GetOutputLayersEXT")
    IN  IF ~has_extensions(exts) THEN out("BadNativeWindow", None, {}, q)
        ELSE IF layers \in {"QueryFailed", "NoLayer"} THEN
            out("BadParameter", None, {}, q \o <<get>>)
        ELSE IF layers = "GetFailed" THEN
            out("BadParameter", None, {}, q \o <<get, get>>)
        ELSE
            LET swap_interval == IF interval = 0 THEN 1 ELSE interval
                pre == q \o <<get, get, NativeCall("QueryOutputLayerAttribEXT"),
                              [call |-> "OutputLayerAttribEXT", interval |-> swap_interval],
                              NativeCall("CreateStreamKHR")>>
                link == NativeCall("StreamConsumerOutputEXT")
            IN  IF ~streamOk THEN out("BadParameter", None, {}, pre)
                ELSE IF ~linkOk THEN out("BadParameter", Some(h), {h}, pre \o <<link>>)
                ELSE out("Ok", Some(h), {h}, pre \o <<link>>)

\* a create_stream that applies the reported interval as it is
create_stream_no_clamp(exts, layers, interval, streamOk, linkOk, h) ==
    LET out(res, stored, created, calls) ==
            [result |-> res, stored |-> stored, created |-> created, calls |-> calls]
        q == <<NativeCall("QueryString")>>
        get == NativeCall("GetOutputLayersEXT")
    IN  IF ~has_extensions(exts) THEN out("BadNativeWindow", None, {}, q)
        ELSE IF layers \in {"QueryFailed", "NoLayer"} THEN
            out("BadParameter", None, {}, q \o <<get>>)
        ELSE IF layers = "GetFailed" THEN
            out("BadParameter", None, {}, q \o <<get, get>>)
        ELSE
            LET swap_interval == interval
                pre == q \o <<get, get, NativeCall("QueryOutputLayerAttribEXT"),
                              [call |-> "OutputLayerAttribEXT", interval |-> swap_interval],
                              NativeCall("CreateStreamKHR")>>
                link == NativeCall("StreamConsumerOutputEXT")
            IN  IF ~streamOk THEN out("BadParameter", None, {}, pre)
                ELSE IF ~linkOk THEN out("BadParameter", None, {h}, pre \o <<link>>)
                ELSE out("Ok", Some(h), {h}, pre \o <<link>>)

\* EglStreamSurface::create_stream.  h is the handle CreateStreamKHR returns
\* when it succeeds.  The value is the result, the handle stored in
\* self.stream (None: the cell is not written), the native streams created
\* and the native calls made.
create_stream(exts, layers, interval, streamOk, linkOk, h) ==
    LET out(res, stored, created, calls) ==
            [result |-> res, stored |-> stored, created |-> created, calls |-> calls]
        q == <<NativeCall("QueryString")>>
        get == NativeCall("GetOutputLayersEXT")
    IN  IF ~has_extensions(exts) THEN out("BadNativeWindow", None, {}, q)
        ELSE IF layers \in {"QueryFailed", "NoLayer"} THEN
            out("BadParameter", None, {}, q \o <<get>>)
        ELSE IF layers = "GetFailed" THEN
            out("BadParameter", None, {}, q \o <<get, get>>)
        ELSE
            LET swap_interval == IF interval = 0 THEN 1 ELSE interval
                pre == q \o <<get, get, NativeCall("QueryOutputLayerAttribEXT"),
                              [call |-> "OutputLayerAttribEXT", interval |-> swap_interval],
                              NativeCall("CreateStreamKHR")>>
                link == NativeCall("StreamConsumerOutputEXT")
            IN  IF ~streamOk THEN out("BadParameter", None, {}, pre)
                ELSE IF ~linkOk THEN out("BadParameter", None, {h}, pre \o <<link>>)
                ELSE out("Ok", Some(h), {h}, pre \o <<link>>)

\* EGLNativeSurface::create
Create(exts, layers, interval, streamOk, linkOk, surfOk) ==
    /\ running
    /\ next_stream <= MaxStreams
    /\ LET cs == create_stream(exts, layers, interval, streamOk, linkOk, next_stream)
           st == IF cs.stored = None THEN stream ELSE cs.stored
       IN  /\ stream' = st
           /\ streams' = streams \cup cs.created
           /\ next_stream' = IF cs.created = {} THEN next_stream ELSE next_stream + 1
           /\ IF cs.result # "Ok" THEN
                \* self.create_stream(display)?
                /\ surface' = surface
                /\ scall' = [op |-> "create", exts |-> exts, result |-> "Err",
                             after_resize |-> scall.op = "resize" /\ scall.changed,
                             layers |-> layers, streamOk |-> streamOk,
                             linkOk |-> linkOk, interval |-> interval,
                             err |-> cs.result, calls |-> cs.calls]
              ELSE
                \* NO_SURFACE is the null pointer
                LET sfc == IF surfOk THEN Some([stream |-> Unwrap(st), size |-> mode])
                           ELSE None
                IN  /\ surface' = sfc
                    /\ scall' = [op |-> "create", exts |-> exts, result |-> "Ok",
                                 after_resize |-> scall.op = "resize" /\ scall.changed,
                                 layers |-> layers, streamOk |-> streamOk,
                                 linkOk |-> linkOk, interval |-> interval,
                                 value |-> sfc,
                                 calls |-> cs.calls \o
                                    <<[call |-> "CreateStreamProducerSurfaceKHR",
                                       stream |-> Unwrap(st), size |-> mode]>>]
    /\ UNCHANGED mode
    /\ UNCHANGED vars

\* EGLNativeSurface::needs_recreation
needs_recreation == stream = None

\* a resize that drops the stream but does not record the new mode
resize_forgets_mode(width, height, cur_mode, cur_stream) ==
    IF cur_mode # <<width, height>>
    THEN [stream |-> None, mode |-> cur_mode, result |-> TRUE]
    ELSE [stream |-> cur_stream, mode |-> cur_mode, result |-> TRUE]

\* a resize that drops the stream whatever the mode is
resize_always(width, height, cur_mode, cur_stream) ==
    [stream |-> None, mode |-> <<width, height>>, result |-> TRUE]

\* EGLNativeSurface::resize: the new stream and mode cells and the result
resize(width, height, cur_mode, cur_stream) ==
    IF cur_mode # <<width, height>>
    THEN [stream |-> None, mode |-> <<width, height>>, result |-> TRUE]
    ELSE [stream |-> cur_stream, mode |-> cur_mode, result |-> TRUE]

Resize(width, height) ==
    /\ running
    /\ LET r == resize(width, height, mode, stream) IN
        /\ stream' = r.stream
        /\ mode' = r.mode
        /\ scall' = [op |-> "resize", arg |-> <<width, height>>,
                     changed |-> mode # <<width, height>>, result |-> r.result]
    /\ UNCHANGED <<surface, streams, next_stream>>
    /\ UNCHANGED vars

\* swap_buffers with the acquire before the swap
swap_buffers_acquire_first(st, swapErr, acquireErr) ==
    LET acq == [call |-> "StreamConsumerAcquireAttribNV", err |-> acquireErr]
        swp == [call |-> "SwapBuffers", err |-> swapErr]
    IN  IF st = None THEN [end |-> "Panic", err |-> "", calls |-> <<>>]
        ELSE IF acquireErr # "SUCCESS" THEN
            [end |-> "Err", err |-> acquireErr, calls |-> <<acq>>]
        ELSE IF swapErr # "SUCCESS" THEN
            [end |-> "Err", err |-> swapErr, calls |-> <<acq, swp>>]
        ELSE [end |-> "Ok", err |-> "", calls |-> <<acq, swp>>]

\* EGLNativeSurface::swap_buffers.  swapErr and acquireErr are what
\* eglGetError reports after SwapBuffers and after the acquire
\* (wrap_egl_call); the QueryStreamKHR calls only feed the log.
swap_buffers(st, swapErr, acquireErr) ==
    LET swp == [call |-> "SwapBuffers", err |-> swapErr]
        acq == [call |-> "StreamConsumerAcquireAttribNV", err |-> acquireErr]
    IN  IF st = None THEN
            \* self.stream.get().unwrap()
            [end |-> "Panic", err |-> "", calls |-> <<>>]
        ELSE IF swapErr # "SUCCESS" THEN
            [end |-> "Err", err |-> swapErr, calls |-> <<swp>>]
        ELSE IF acquireErr # "SUCCESS" THEN
            [end |-> "Err", err |-> acquireErr, calls |-> <<swp, acq>>]
        ELSE [end |-> "Ok", err |-> "", calls |-> <<swp, acq>>]

SwapBuffers(swapErr, acquireErr) ==
    /\ running
    /\ LET r == swap_buffers(stream, swapErr, acquireErr) IN
        /\ scall' = [op |-> "swap_buffers", result |-> r.end, err |-> r.err,
                     calls |-> r.calls]
        /\ panic' = IF r.end = "Panic"
                    THEN Some("called Option::unwrap() on a None value")
                    ELSE panic
    /\ UNCHANGED <<stream, mode, surface, streams, next_stream>>
    /\ UNCHANGED <<dmabuf, try_again, copy, frames, next_frame,
                   event, steps, built, begun, objs, valid, tracking>>

\* a create call; a result the call does not get to read has one value
SurfaceCreate ==
    \E exts \in ExtensionLists :
    \E layers \in (IF has_extensions(exts) THEN LayerResults ELSE {"Ok"}) :
    \E interval \in (IF layers = "Ok" THEN MinIntervals ELSE {1}) :
    \E streamOk \in (IF layers = "Ok" THEN BOOLEAN ELSE {TRUE}) :
    \E linkOk \in (IF streamOk THEN BOOLEAN ELSE {TRUE}) :
    \E surfOk \in (IF linkOk THEN BOOLEAN ELSE {TRUE}) :
        Create(exts, layers, interval, streamOk, linkOk, surfOk)

SurfaceResize == \E m \in Modes : Resize(m[1], m[2])

SurfaceSwapBuffers ==
    \E swapErr \in EglErrors, acquireErr \in EglErrors : SwapBuffers(swapErr, acquireErr)

SurfaceNext == SurfaceCreate \/ SurfaceResize \/ SurfaceSwapBuffers

\* any sequence of create, resize and swap_buffers calls on a new surface
SurfaceSpec == Init /\ [][SurfaceNext]_<<vars, svars>>

(***************************************************************************)
(* The event loop.                                                         *)
(***************************************************************************)
Frame ==
    \E f \in frames, h \in FrameHeaders, format \in FormatCodes :
        OnFrame(f, h.size, h.flags, format, h.mod_high, h.mod_low)

Object == \E f \in frames, p \in PlaneInputs : OnObject(f, p)

Ready ==
    \E f \in frames, importOk \in BOOLEAN, cpuOk \in BOOLEAN, bindOk \in BOOLEAN :
        \* a call that is not reached has no result to choose
        \E renderOk \in (IF bindOk THEN BOOLEAN ELSE {TRUE}) :
            \E swapRes \in (IF bindOk /\ renderOk THEN SwapResults ELSE {"Ok"}) :
                OnReady(f, importOk, cpuOk, bindOk, renderOk, swapRes)

Cancel == \E f \in frames, reason \in CancelReasons : OnCancel(f, reason)

\* the current mode of the headless output when the program starts
SourceMode == <<2, 2>>

\* state.buffer: vec![0u8; width * height * 4] of the mode found at startup,
\* never reallocated
buffer_len == SourceMode[1] * SourceMode[2] * 4

\* copy_by_cpu: gl.ReadPixels(0, 0, w, h, RGBA, UNSIGNED_BYTE, buffer_ptr) with
\* (w, h) the size of the descriptor writes w * h * 4 bytes at buffer_ptr
read_back_bytes(buf) == buf.size[1] * buf.size[2] * 4

\* the last Ready handed a descriptor to copy_by_cpu whose read-back is
\* longer than state.buffer
overrun ==
    /\ event.kind = "Ready"
    /\ built # None
    /\ \E i \in 1..Len(steps) : steps[i].call = "copy_by_cpu"
    /\ read_back_bytes(Unwrap(built)) > buffer_len

\* a write past the end of state.buffer is undefined: the process either goes
\* on with a damaged heap or is ended by a memory fault
Fault ==
    /\ running
    /\ overrun
    /\ panic' = Some("memory fault")
    /\ event' = [kind |-> "Fault"]
    /\ steps' = <<>>
    /\ built' = None
    /\ UNCHANGED <<dmabuf, try_again, copy, frames, next_frame, begun, objs, valid>>
    /\ UNCHANGED <<svars, tracking>>

Next == VBlank \/ Tick \/ Frame \/ Object \/ Ready \/ Cancel \/ Fault

\* the loop alone: it takes the result of surface.swap_buffers() as an input
\* and calls no other method of the surface
Spec == Init /\ [][Next]_<<vars, svars>>

\* the tick callback runs after every dispatch, at least once a second
FairSpec == Spec /\ WF_<<vars, svars>>(Tick)

\* the event loop with the writers of every descriptor recorded
SessionSpec == SessionInit /\ [][Next]_<<vars, svars>>

(***************************************************************************)
(* Properties.                                                             *)
(***************************************************************************)
ProtocolPanic == Some("Object event before Frame event")

CopyCalls == {"copy_by_import", "copy_by_cpu"}

\* the copy function of a fixed strategy
CopyCallOf(c) == IF c = Some("DirectImport") THEN "copy_by_import" ELSE "copy_by_cpu"

\* C1: at most one capture request is issued and not yet terminated
C1_AtMostOneInFlight == Cardinality(frames) <= 1

\* C2: a Frame event received while a descriptor is under construction is
\* an error and leaves the descriptor under construction in place
C2_SecondBeginRejected ==
    [][(event'.kind = "Frame" /\ dmabuf # None)
        => (panic' # None /\ dmabuf' = dmabuf)]_vars

\* C3: after a Cancel with a reason other than Permanent no descriptor is
\* under construction, the retry flag is set and there is no error
C3_TransientCancelDiscards ==
    (event.kind = "Cancel" /\ event.reason # "Permanent")
        => (dmabuf = None /\ try_again /\ panic = None)

\* C4: an Object event received while no descriptor is under construction is
\* a protocol error and adds no plane to any descriptor
C4_ObjectBeforeBegin ==
    [][(event'.kind = "Object" /\ dmabuf = None)
        => (panic' = ProtocolPanic /\ dmabuf' = None)]_vars

C4_Witness ==
    event.kind = "Object" /\ panic = ProtocolPanic /\ dmabuf = None

\* C5: a Ready leaves no descriptor and no planes in the session and hands
\* the completed descriptor to render_dmabuf; a Ready without a descriptor
\* in progress is a protocol error
C5_ReadyClears ==
    [][event'.kind = "Ready" =>
        /\ dmabuf' = None
        /\ dmabuf = None => (panic' = ProtocolPanic /\ built' = None)
        /\ (dmabuf # None /\ Unwrap(dmabuf).builder.planes # <<>>)
             => built' = Some(Unwrap(dmabuf).builder)]_vars

C5_Witness ==
    /\ event.kind = "Ready" /\ event.had
    /\ built # None /\ Unwrap(built).planes # <<>>
    /\ dmabuf = None

\* C6: after Frame(mod_high, mod_low), Object*, Ready the modifier of every
\* plane of the descriptor has mod_low in bits 0..31 and mod_high in bits
\* 32..63
C6_ModifierCombined ==
    (event.kind = "Ready" /\ event.valid /\ built # None) =>
        \A i \in 1..Len(Unwrap(built).planes) :
            LET m == ModifierCode(Unwrap(built).planes[i].modifier)
                b == Unwrap(event.begun)
            IN  \A k \in 0..31 :
                    /\ (k \in m) = (k \in b.mod_low)
                    /\ ((k + 32) \in m) = (k \in b.mod_high)

C6_Witness ==
    /\ event.kind = "Ready" /\ event.valid /\ built # None
    /\ Unwrap(event.begun).mod_high = U32({})
    /\ Unwrap(event.begun).mod_low = U32({0, 31})

C8_StrategySticky ==
    [][copy # None =>
        /\ copy' = copy
        /\ \A i \in 1..Len(steps') :
            steps'[i].call \in CopyCalls => steps'[i].call = CopyCallOf(copy)]_vars

C8_Witness ==
    /\ event.kind = "Ready"
    /\ copy = Some("DirectImport")
    /\ steps # <<>> /\ steps[1] = Call("copy_by_import", FALSE)

\* C9: while undecided, render_dmabuf calls the import first; if it
\* succeeds the strategy becomes DirectImport and the CPU copy is not called;
\* if it fails the CPU copy is called next, and its success makes the
\* strategy CPUCopy
C9_ImportFirst ==
    [][(copy = None /\ event'.kind = "Ready" /\ steps' # <<>>) =>
        /\ steps'[1].call = "copy_by_import"
        /\ steps'[1].ok =>
            /\ copy' = Some("DirectImport")
            /\ \A i \in 1..Len(steps') : steps'[i].call # "copy_by_cpu"
        /\ ~steps'[1].ok =>
            /\ Len(steps') >= 2
            /\ steps'[2].call = "copy_by_cpu"
            /\ steps'[2].ok => copy' = Some("CPUCopy")]_vars

C9_Witness ==
    /\ event.kind = "Ready"
    /\ copy = Some("CPUCopy")
    /\ Len(steps) >= 2
    /\ steps[1] = Call("copy_by_import", FALSE)
    /\ steps[2] = Call("copy_by_cpu", TRUE)

\* C10: when the import and the CPU copy both fail while undecided, the
\* process panics, nothing is bound, rendered or presented for the frame,
\* the strategy stays undecided, and a process that panicked takes no step
C10_BothFailFatal ==
    [][/\ (/\ copy = None /\ event'.kind = "Ready" /\ Len(steps') >= 2
           /\ steps'[1] = Call("copy_by_import", FALSE)
           /\ steps'[2] = Call("copy_by_cpu", FALSE))
          => (panic' # None /\ copy' = None /\ Len(steps') = 2)
       /\ panic # None => UNCHANGED vars]_vars

C10_Witness ==
    /\ panic = Some("Could not determine working copy path")
    /\ copy = None
    /\ steps = <<Call("copy_by_import", FALSE), Call("copy_by_cpu", FALSE)>>

\* the last call of the latest render_dmabuf
LastStep == steps[Len(steps)]

\* C11: with the strategy fixed, a failure of its copy function ends the
\* process ("Failed to render"); the other copy function is not called,
\* nothing is bound, rendered or presented, the retry flag and the strategy
\* keep their values
C11_FixedCopyFailureFatal ==
    [][(copy # None /\ event'.kind = "Ready" /\ steps' # <<>> /\ ~steps'[1].ok) =>
        /\ steps'[1].call = CopyCallOf(copy)
        /\ Len(steps') = 1
        /\ panic' = Some("Failed to render")
        /\ try_again' = try_again
        /\ copy' = copy]_vars

C11_Witness ==
    /\ event.kind = "Ready"
    /\ panic = Some("Failed to render")
    /\ copy = Some("CPUCopy")
    /\ steps = <<Call("copy_by_cpu", FALSE)>>
    /\ ~try_again

\* C12: a swap_buffers failure with BadSurface, 0x3353 or 0x321c sets the
\* retry flag and the process goes on; a failure with any other code ends
\* the process
C12_SwapClassification ==
    [][(/\ event'.kind = "Ready" /\ steps' # <<>>
        /\ LastStep'.call = "swap_buffers" /\ ~LastStep'.ok) =>
        IF LastStep'.code \in {"BadSurface", "0x3353", "0x321c"}
        THEN try_again' /\ panic' = None
        ELSE panic' = Some("Swapping buffers failed")]_vars

C12_Witness ==
    /\ event.kind = "Ready" /\ steps # <<>>
    /\ LastStep.call = "swap_buffers" /\ LastStep.code = "0x321c"
    /\ try_again /\ panic = None

\* C13: Cancel(Permanent) ends the process whatever the state of the
\* descriptor, and a process that ended issues no capture request and runs
\* no copy, render or present
C13_PermanentCancelStops ==
    [][/\ (event'.kind = "Cancel" /\ event'.reason = "Permanent")
            => (panic' = Some("Output died") /\ steps' = <<>> /\ frames' = frames)
       /\ panic = Some("Output died") => UNCHANGED vars]_vars

C13_Witness ==
    /\ event.kind = "Cancel" /\ event.reason = "Permanent"
    /\ panic = Some("Output died")
    /\ dmabuf # None /\ Unwrap(dmabuf).builder.planes # <<>>

\* C14: a Cancel with a reason other than Permanent sets the retry flag and
\* does not end the process; a tick that finds the flag set issues a capture
\* request; the process does not end between the Cancel and that tick, so
\* that with a fair tick the Cancel is always followed by a capture request
\* (as long as the model has a request left to issue)
C14_TransientCancelRetries ==
    /\ [][(event'.kind = "Cancel" /\ event'.reason # "Permanent")
            => (try_again' /\ panic' = None)]_vars
    /\ [][(event'.kind = "Tick" /\ try_again)
            => (frames' = frames \cup {next_frame} /\ next_frame' = next_frame + 1)]_vars
    /\ [][(event.kind = "Cancel" /\ event.reason # "Permanent") => panic' = None]_vars
    /\ (event.kind = "Cancel" /\ event.reason # "Permanent")
         ~> \/ (event.kind = "Tick" /\ event.retry)
            \/ panic # None
            \/ next_frame > MaxRequests

\* C15: resize to the recorded mode changes neither the stream handle nor
\* the mode nor needs_recreation, and returns true
C15_ResizeSameModeNoop ==
    [][(scall'.op = "resize" /\ scall'.arg = mode) =>
        /\ stream' = stream
        /\ mode' = mode
        /\ needs_recreation' = needs_recreation
        /\ surface' = surface
        /\ scall'.result = TRUE]_svars

C15_Witness ==
    scall.op = "resize" /\ ~scall.changed /\ scall.arg = mode /\ stream # None

\* C16 as stated: resize to another mode returns true, records the mode and
\* makes needs_recreation true, and after the next create needs_recreation
\* is false and the producer surface has the size of the new mode
C16_Original ==
    [][/\ (scall'.op = "resize" /\ scall'.arg # mode)
            => (scall'.result = TRUE /\ mode' = scall'.arg /\ needs_recreation')
       /\ (scall.op = "resize" /\ scall.changed /\ scall'.op = "create")
            => (/\ ~needs_recreation'
                /\ surface' # None
                /\ Unwrap(surface').size = mode)]_svars

\* C16 amended: resize to another mode returns true, records the mode and
\* makes needs_recreation true; the next create makes at most one native
\* stream; if it fails needs_recreation stays true; if it succeeds exactly
\* one stream was made, needs_recreation is false and the producer surface
\* was requested for that stream with the size of the new mode
C16_ResizeRecreates ==
    [][/\ (scall'.op = "resize" /\ scall'.arg # mode)
            => (scall'.result = TRUE /\ mode' = scall'.arg /\ needs_recreation')
       /\ (scall.op = "resize" /\ scall.changed /\ scall'.op = "create")
            => /\ Cardinality(streams' \ streams) <= 1
               /\ scall'.result = "Err" => needs_recreation'
               /\ scall'.result = "Ok" =>
                    /\ ~needs_recreation'
                    /\ streams' \ streams = {Unwrap(stream')}
                    /\ scall'.calls[Len(scall'.calls)] =
                        [call |-> "CreateStreamProducerSurfaceKHR",
                         stream |-> Unwrap(stream'), size |-> scall.arg]]_svars

C16_Witness ==
    /\ scall.op = "create" /\ scall.after_resize /\ scall.result = "Ok"
    /\ ~needs_recreation
    /\ surface # None /\ Unwrap(surface).size = mode

\* C17: an Object or a Ready received while no descriptor is under
\* construction does not end the process
C17_ProtocolErrorSurvives ==
    [][(event'.kind \in {"Object", "Ready"} /\ dmabuf = None) => panic' = None]_vars

\* C18: swap_buffers calls SwapBuffers first; the acquire is called second
\* and only after a SwapBuffers without error; a failed SwapBuffers gives an
\* error without an acquire; the result is Ok only if both gave no error
\* (a call made without a stream ends in unwrap before either native call)
C18_SwapThenAcquire ==
    scall.op = "swap_buffers" =>
        LET c == scall.calls IN
        /\ c # <<>> => c[1].call = "SwapBuffers"
        /\ scall.result # "Panic" => c # <<>>
        /\ \A i \in 1..Len(c) :
            c[i].call = "StreamConsumerAcquireAttribNV"
                => (i = 2 /\ c[1].err = "SUCCESS")
        /\ (c # <<>> /\ c[1].err # "SUCCESS") => (scall.result = "Err" /\ Len(c) = 1)
        /\ (scall.result = "Ok") =
                (Len(c) = 2 /\ c[1].err = "SUCCESS" /\ c[2].err = "SUCCESS")

C18_Witness ==
    /\ scall.op = "swap_buffers" /\ scall.result = "Ok"
    /\ Len(scall.calls) = 2

\* C19: create on a display that lacks one of the six extensions fails,
\* creates no native stream and leaves the stream handle as it was
C19_MissingExtension ==
    [][(scall'.op = "create" /\ scall'.exts # RequiredExtensions) =>
        /\ scall'.result = "Err"
        /\ streams' = streams
        /\ \A i \in 1..Len(scall'.calls) : scall'.calls[i].call # "CreateStreamKHR"
        /\ stream' = stream
        /\ surface' = surface]_svars

C19_Witness ==
    /\ scall.op = "create" /\ scall.result = "Err"
    /\ "EGL_KHR_stream_producer_eglsurface" \notin scall.exts
    /\ stream # None

\* C20: the copy, the render and the present run only in the handler of a
\* Ready that found a descriptor, on the descriptor built from it; never in
\* the handler of a Frame, Object or Cancel event
C20_OnlyReadyRenders ==
    [][(steps' # <<>> \/ built' # None) =>
        /\ event'.kind = "Ready"
        /\ dmabuf # None
        /\ built' = build(Unwrap(dmabuf).builder)
        /\ built' # None]_vars

C20_Witness ==
    /\ event.kind = "Ready" /\ built # None
    /\ steps # <<>> /\ LastStep.call = "swap_buffers" /\ LastStep.ok

\* C21: the flags of the descriptor handed to render_dmabuf equal the
\* buffer_flags of the Frame event that began it, bit for bit
C21_FlagsPassThrough ==
    (event.kind = "Ready" /\ event.valid /\ built # None) =>
        Unwrap(built).flags = Unwrap(event.begun).flags

\* C22: a tick that finds the retry flag set clears it and issues exactly
\* one capture request; a tick that finds it clear issues none and leaves it
\* clear, so a flag set once gives one capture request, not one per tick
C22_TickConsumesFlag ==
    [][event'.kind = "Tick" =>
        /\ ~try_again'
        /\ event'.retry = try_again
        /\ IF try_again
           THEN frames' = frames \cup {next_frame} /\ next_frame \notin frames
                /\ next_frame' = next_frame + 1
           ELSE frames' = frames /\ next_frame' = next_frame]_vars

C22_Witness ==
    /\ event.kind = "Tick" /\ event.retry
    /\ ~try_again
    /\ frames # {} /\ panic = None

\* C23: the handler of a Ready issues no capture request itself (only the
\* tick and the VBlank arm do).  If the present succeeded it leaves the
\* retry flag as it was and the process runs on; if the present failed with
\* a temporary code it sets the flag and the process runs on; if any call of
\* the cycle failed otherwise the process ends, and an ended process takes
\* no step
C23_PresentOutcomes ==
    /\ [][(event'.kind = "Ready" /\ steps' # <<>>) =>
            /\ next_frame' = next_frame /\ frames' \subseteq frames
            /\ (LastStep'.call = "swap_buffers" /\ LastStep'.ok)
                    => (try_again' = try_again /\ panic' = None)
            /\ (LastStep'.call = "swap_buffers" /\ LastStep'.code \in TransientSwapErrors)
                    => (try_again' /\ panic' = None)
            /\ (LastStep'.call # "swap_buffers" \/
                    LastStep'.code \notin TransientSwapErrors \cup {"Ok"})
                    => (panic' # None /\ try_again' = try_again)]_vars
    /\ [][next_frame' # next_frame => event'.kind \in {"Tick", "VBlank"}]_vars
    /\ [][panic # None => UNCHANGED vars]_vars

C23_Witness ==
    /\ event.kind = "Ready" /\ steps # <<>>
    /\ LastStep.call = "swap_buffers" /\ LastStep.code = "BadSurface"
    /\ try_again /\ panic = None
    /\ frames = {}

\* C24: a create call made after a resize that asked for recreation leaves
\* at most one native stream alive (the old stream was destroyed first)
C24_OneLiveStream ==
    [][(scall'.op = "create" /\ scall.op = "resize" /\ scall.changed)
            => Cardinality(streams') <= 1]_svars

\* the native calls of the latest create contain no producer surface call
NoProducerSurfaceCall(c) ==
    \A i \in 1..Len(c.calls) : c.calls[i].call # "CreateStreamProducerSurfaceKHR"

\* the latest create met a layer, stream or consumer link failure
ConstructionFailed(c) ==
    c.op = "create" /\ (c.layers # "Ok" \/ ~c.streamOk \/ ~c.linkOk)

\* C25 as stated: when no output layer is found, the native stream is null
\* or the consumer link fails, create returns an error, needs_recreation
\* reports true afterwards and no producer surface is created
C25_Original ==
    [][ConstructionFailed(scall') =>
        /\ scall'.result = "Err"
        /\ needs_recreation'
        /\ NoProducerSurfaceCall(scall')]_svars

\* C25 amended: in those cases create returns an error, creates no producer
\* surface and writes neither the stream handle nor the surface: needs_recreation
\* reports what it reported before the call (true when the call was made
\* without a stream)
C25_ConstructionFailure ==
    [][ConstructionFailed(scall') =>
        /\ scall'.result = "Err"
        /\ NoProducerSurfaceCall(scall')
        /\ stream' = stream
        /\ surface' = surface
        /\ needs_recreation' = needs_recreation]_svars

C25_Witness ==
    /\ scall.op = "create" /\ scall.result = "Err"
    /\ scall.exts = RequiredExtensions
    /\ scall.layers = "Ok" /\ scall.streamOk /\ ~scall.linkOk
    /\ needs_recreation
    /\ streams # {}

\* C26: a Cancel received while no descriptor was begun is reported as a
\* protocol error and does not set the retry flag
C26_CancelBeforeBegin ==
    [][(event'.kind = "Cancel" /\ event'.reason # "Permanent"
            /\ dmabuf = None /\ begun = None) =>
        (panic' # None /\ try_again' = try_again)]_vars

\* C27: a tick that finds the retry flag clear changes nothing in the
\* program, whether or not a capture request is outstanding: it issues no
\* capture request and runs no copy, render or present (so no number of
\* such ticks does)
C27_NoWatchdog ==
    [][(event'.kind = "Tick" /\ ~try_again) =>
        /\ UNCHANGED <<frames, next_frame, try_again, dmabuf, copy, panic>>
        /\ steps' = <<>> /\ built' = None]_vars

C27_Witness ==
    /\ event.kind = "Tick" /\ ~event.retry
    /\ frames # {} /\ ~try_again /\ panic = None
    /\ dmabuf # None

\* C28: a Ready that follows a Frame and any number of Object events,
\* zero included, yields a descriptor with that many planes and does not
\* end the process in build
C28_EveryReadyCompletes ==
    [][(event'.kind = "Ready" /\ event'.had /\ event'.valid) =>
        /\ built' # None
        /\ Len(Unwrap(built').planes) = Len(event'.objs)
        /\ panic' # Some("Failed to build dmabuf")]_vars

\* the calls render_dmabuf makes after the copy, in the order of the code
AfterCopy == <<"bind", "render", "swap_buffers">>

\* C29: the calls of one Ready are the copy call(s), then bind, render and
\* swap_buffers in that order, each made only if the call before it
\* succeeded: swap_buffers is called at most once, and never after a failed
\* copy or render
C29_CycleOrder ==
    [][(event'.kind = "Ready" /\ steps' # <<>>) =>
        LET s == steps'
            k == Cardinality({i \in 1..Len(s) : s[i].call \in CopyCalls})
        IN  /\ k >= 1
            /\ \A i \in 1..k : s[i].call \in CopyCalls
            /\ Len(s) - k <= Len(AfterCopy)
            /\ \A i \in (k + 1)..Len(s) :
                /\ s[i].call = AfterCopy[i - k]
                /\ s[i - 1].ok
            /\ Cardinality({i \in 1..Len(s) : s[i].call = "swap_buffers"}) <= 1]_vars

C29_Witness ==
    /\ event.kind = "Ready"
    /\ Len(steps) = 5
    /\ steps[1] = Call("copy_by_import", FALSE)
    /\ steps[2] = Call("copy_by_cpu", TRUE)
    /\ steps[5].call = "swap_buffers"

\* C30: the descriptor a Ready hands to render_dmabuf was written by the
\* events of the request of that Ready only, and a Ready does not find the
\* slot emptied by the Ready of another request that took a descriptor
\* holding its events
C30_NoMixing ==
    [][event'.kind = "Ready" =>
        /\ built' # None => event'.own
        /\ ~event'.robbed]_vars

\* C31: whenever swap_buffers is called on a surface that create has
\* set up, the surface holds a stream handle, so that the read of the
\* handle does not fail (a resize may have been called in between)
C31_StreamPresentAtSwap ==
    [][(scall'.op = "swap_buffers" /\ surface # None) =>
        (stream # None /\ scall'.result # "Panic" /\ panic' = None)]_svars

\* C32: a create that returns Ok returns a producer surface that is not
\* null and has stored that surface
C32_OkMeansSurface ==
    [][(scall'.op = "create" /\ scall'.result = "Ok") =>
        (scall'.value # None /\ surface' = scall'.value)]_svars

\* C33: every descriptor handed to copy_by_cpu is read back into state.buffer
\* without writing past its end: width * height * 4 of the descriptor is at
\* most the length of the buffer allocated at startup
C33_ReadBackFits ==
    (built # None /\ \E i \in 1..Len(steps) : steps[i].call = "copy_by_cpu") =>
        read_back_bytes(Unwrap(built)) <= buffer_len

\* C34: the retry flag is false at startup and changes in three places only:
\* a Cancel with a reason other than Permanent sets it, a present that
\* failed with a temporary code sets it, the tick that finds it set clears
\* it.  Frame, Object, a Ready whose present succeeded and a vblank leave it
\* as it was
C34_FlagChangesInThreePlaces ==
    [][/\ event.kind = "Init" => ~try_again
       /\ try_again' # try_again =>
            \/ /\ event'.kind = "Cancel" /\ event'.reason # "Permanent"
               /\ try_again'
            \/ /\ event'.kind = "Ready" /\ steps' # <<>>
               /\ LastStep'.call = "swap_buffers"
               /\ LastStep'.code \in TransientSwapErrors
               /\ try_again'
            \/ /\ event'.kind = "Tick" /\ event'.retry
               /\ ~try_again'
       /\ event'.kind \in {"Frame", "Object", "VBlank"} => try_again' = try_again
       /\ (/\ event'.kind = "Ready" /\ steps' # <<>>
           /\ LastStep'.call = "swap_buffers" /\ LastStep'.ok)
            => try_again' = try_again]_vars

\* a Cancel(Resizing) has set the flag, which was clear, and the process runs on
C34_Witness ==
    /\ event.kind = "Cancel" /\ event.reason = "Resizing"
    /\ try_again /\ panic = None
    /\ next_frame = 2

\* the OutputLayerAttribEXT(SWAP_INTERVAL_EXT) calls among the given calls
IntervalCalls(calls) ==
    {i \in 1..Len(calls) : calls[i].call = "OutputLayerAttribEXT"}

\* C35: a create that found an output layer sets the swap interval of the
\* layer once, to the minimum the layer reported, or to one if it reported
\* zero; the interval it sets is never zero
C35_SwapIntervalClamped ==
    [][(scall'.op = "create" /\ has_extensions(scall'.exts) /\ scall'.layers = "Ok") =>
        /\ Cardinality(IntervalCalls(scall'.calls)) = 1
        /\ \A i \in IntervalCalls(scall'.calls) :
            /\ scall'.calls[i].interval =
                    IF scall'.interval = 0 THEN 1 ELSE scall'.interval
            /\ scall'.calls[i].interval # 0]_svars

\* a create whose layer reported zero has set the interval to one
C35_Witness ==
    /\ scall.op = "create" /\ scall.layers = "Ok" /\ scall.interval = 0
    /\ \E i \in IntervalCalls(scall.calls) : scall.calls[i].interval = 1

====
